---- MODULE Spec2Model ----
(***************************************************************************)
(* TypeI18n, src/gen.ts: the schema unification and diagnostics pass of    *)
(* gen().  One behaviour is one call of gen(files): every locale           *)
(* dictionary is built into a type-descriptor tree (toTypeNode), the trees *)
(* are folded into the canonical tree (merge), the missing-key ledger is   *)
(* turned into diagnostics, and gen either throws the composite error or   *)
(* goes on to print the output.                                            *)
(*                                                                         *)
(* Record descriptors are JavaScript objects and merge stores references   *)
(* to them, so they live in a heap: heap[id] is the object, and a cell     *)
(* [kind |-> "record", ref |-> id] is a reference to it.  String and call  *)
(* descriptors are never written after their creation and are held by      *)
(* value.                                                                  *)
(***************************************************************************)
EXTENDS Naturals, Sequences, FiniteSets, TLC

(***************************************************************************)
(* Bounds of the model.                                                    *)
(***************************************************************************)
\* the longest list of locales drawn from WideDicts
MaxLocales == 3

(***************************************************************************)
(* JavaScript values of a YamlNode.  A string is a sequence of tokens: a   *)
(* token is one character of plain text or one whole placeholder.          *)
(***************************************************************************)
Str(s)  == [t |-> "string", s |-> s]
Num(n)  == [t |-> "number", n |-> n]
Bool(b) == [t |-> "boolean", b |-> b]
Null    == [t |-> "null"]
Arr(a)  == [t |-> "array", items |-> a]
Dict(d) == [t |-> "dict", d |-> d]

\* typeof value (gen.ts:40): null and arrays are "object" too
TypeOf(v) ==
    CASE v.t = "string"  -> "string"
      [] v.t = "number"  -> "number"
      [] v.t = "boolean" -> "boolean"
      [] OTHER           -> "object"

\* the placeholder tokens and the identifier each one carries
Placeholder == [p \in {"{n}", "{u}"} |-> IF p = "{n}" THEN "n" ELSE "u"]

\* Number.prototype.toString (gen.ts:42) of a one-digit number
Digits == <<"0", "1", "2", "3", "4", "5", "6", "7", "8", "9">>
NumberToString(n) == <<Digits[n + 1]>>

\* String(i) of an array index: the keys Object.entries gives an array
IndexKey == <<"0", "1">>

\* the properties every plain object inherits from Object.prototype: the
\* `in` operator (gen.ts:72, gen.ts:94) finds them in every record's value
ObjectPrototypeKeys == {"constructor"}

\* the order in which the dictionaries of the model list their own keys
KeyOrder == <<"x", "y", "constructor", "0", "1">>

Range(s) == {s[i] : i \in 1..Len(s)}

EmptyFn == [k \in {} |-> 0]

\* Object.entries(node) (gen.ts:39): own keys with their values; of an array
\* its indices; of null a TypeError, told by the caller through CanEntries
CanEntries(node) == node.t \in {"dict", "array"}
Entries(node) ==
    IF node.t = "array"
    THEN [i \in 1..Len(node.items) |-> <<IndexKey[i], node.items[i]>>]
    ELSE LET ks == SelectSeq(KeyOrder, LAMBDA k : k \in DOMAIN node.d)
         IN  [i \in 1..Len(ks) |-> <<ks[i], node.d[ks[i]]>>]

(***************************************************************************)
(* Type descriptors (factory) and their tests (utils).                     *)
(***************************************************************************)
createStringTypeDescriptor(value) == [kind |-> "string", value |-> value]
createCallTypeDescriptor(args)    == [kind |-> "call", body |-> args]
\* the object of a record descriptor; a locale's record has no `missing`
createRecordTypeDescriptor(value) == [value |-> value, missing |-> FALSE]
\* the empty provisional record the fold starts from
createMissingRecordTypeDescriptor == [value |-> EmptyFn, missing |-> TRUE]
RecordRef(id) == [kind |-> "record", ref |-> id]
\* what target.value[key] is for an inherited key: a member of
\* Object.prototype, whose .kind is undefined
Inherited == [kind |-> "undefined"]

isStringType(d) == d.kind = "string"
isCallType(d)   == d.kind = "call"
isRecordType(d) == d.kind = "record"
isParamArgType(a) == a.kind = "param"
isMissingRecordTypeDescriptor(obj) == obj.missing

\* arrayEq(a, b, x => x.name)
arrayEq(a, b) ==
    /\ Len(a) = Len(b)
    /\ \A i \in 1..Len(a) : a[i].name = b[i].name

\* diffArray(names, exists): the names that are not in exists, in order
diffArray(names, exists) == SelectSeq(names, LAMBDA n : n \notin Range(exists))

\* getCurrentPath(context): context.paths.join('.'), "." a token of its own
RECURSIVE JoinDot(_)
JoinDot(paths) ==
    IF Len(paths) = 0 THEN <<>>
    ELSE IF Len(paths) = 1 THEN <<paths[1]>>
    ELSE <<paths[1], ".">> \o JoinDot(Tail(paths))
getCurrentPath(ctx) == JoinDot(ctx.paths)

\* `${getCurrentPath(context)}.${key}` (gen.ts:73, 84, 98, 117, 129)
PathOf(ctx, key) == getCurrentPath(ctx) \o <<".", key>>

(***************************************************************************)
(* matchCallBody: the template parser.  No placeholder: falsy, written     *)
(* <<>>.  Otherwise the ordered arguments: each run of plain text is one   *)
(* literal, each placeholder one param.                                    *)
(***************************************************************************)
IsPlaceholder(tok) == tok \in DOMAIN Placeholder

RECURSIVE ParseArgs(_, _)
ParseArgs(s, lit) ==
    IF Len(s) = 0
    THEN IF Len(lit) = 0 THEN <<>> ELSE <<[kind |-> "literal", text |-> lit]>>
    ELSE IF IsPlaceholder(Head(s))
         THEN (IF Len(lit) = 0 THEN <<>> ELSE <<[kind |-> "literal", text |-> lit]>>)
              \o <<[kind |-> "param", name |-> Placeholder[Head(s)]]>>
              \o ParseArgs(Tail(s), <<>>)
         ELSE ParseArgs(Tail(s), Append(lit, Head(s)))

matchCallBody(s) ==
    IF \E i \in 1..Len(s) : IsPlaceholder(s[i]) THEN ParseArgs(s, <<>>) ELSE <<>>

(***************************************************************************)
(* Diagnostics: i18n.t.errors.* builds the message from these fields.      *)
(***************************************************************************)
unexpected_value(key, value) ==
    [type |-> "unexpected_value", key |-> key, value |-> value]
type_of_path_is_unexpected(path, actually, should) ==
    [type |-> "type_of_path_is_unexpected", path |-> path,
     actually |-> actually, should |-> should]
args_is_different(path, one, two) ==
    [type |-> "args_is_different", path |-> path, one |-> one, two |-> two]
key_missing_in_path(path, missing) ==
    [type |-> "key_missing_in_path", path |-> path, missing |-> missing]

\* Set.prototype.add on context.errors: insertion order, no duplicates
SetAdd(s, e) == IF e \in Range(s) THEN s ELSE Append(s, e)

(***************************************************************************)
(* toTypeNode (gen.ts:37-63).  The context threaded through is             *)
(* [heap, errors, missing, paths, crashed]; crashed is an exception on its *)
(* way out of gen.                                                         *)
(***************************************************************************)
RECURSIVE toTypeNode(_, _)
RECURSIVE BuildEntries(_, _, _)

\* the string cases (gen.ts:43-50)
StringDescriptor(s) ==
    LET args == matchCallBody(s)
    IN  IF args = <<>> THEN createStringTypeDescriptor(s)
        ELSE createCallTypeDescriptor(args)

SetKey(ctx, id, key, cell) ==
    [ctx EXCEPT !.heap[id].value =
        [k \in DOMAIN @ \cup {key} |-> IF k = key THEN cell ELSE @[k]]]

\* the forEach of gen.ts:39-60 over the entries still to do, writing record id
BuildEntries(es, id, ctx) ==
    IF Len(es) = 0 \/ ctx.crashed THEN ctx
    ELSE
      LET key   == es[1][1]
          value == es[1][2]
          next  ==
            CASE TypeOf(value) = "number" ->
                   SetKey(ctx, id, key, StringDescriptor(NumberToString(value.n)))
              [] TypeOf(value) = "string" ->
                   SetKey(ctx, id, key, StringDescriptor(value.s))
              [] TypeOf(value) = "object" ->
                   \* inPathContext(context, key, ctx => toTypeNode(value, ctx))
                   LET sub == toTypeNode(value,
                                [ctx EXCEPT !.paths = Append(@, key)])
                       out == [sub.ctx EXCEPT !.paths = ctx.paths]
                   IN  IF sub.ctx.crashed THEN sub.ctx
                       ELSE SetKey(out, id, key, RecordRef(sub.ref))
              [] OTHER ->
                   [ctx EXCEPT !.errors = SetAdd(@, unexpected_value(key, value))]
      IN  BuildEntries(Tail(es), id, next)

toTypeNode(node, ctx) ==
    LET id  == Len(ctx.heap) + 1
        new == [ctx EXCEPT !.heap = Append(@, createRecordTypeDescriptor(EmptyFn))]
    IN  IF ~CanEntries(node)
        THEN [ref |-> id, ctx |-> [new EXCEPT !.crashed = TRUE]]
        ELSE [ref |-> id, ctx |-> BuildEntries(Entries(node), id, new)]

(***************************************************************************)
(* The missing-key ledger, context.missing: a Map from the path string to  *)
(* {exists, missing}, two Sets of locale names (gen.ts:73-78, 98-103).     *)
(***************************************************************************)
LedgerHas(ledger, path) == \E i \in 1..Len(ledger) : ledger[i].path = path
LedgerGet(ledger, path) ==
    ledger[CHOOSE i \in 1..Len(ledger) : ledger[i].path = path]

\* gen.ts:73-78: name lacks a key the target has
RecordMissing(ledger, path, name) ==
    IF ~LedgerHas(ledger, path)
    THEN Append(ledger, [path |-> path, exists |-> <<>>, missing |-> <<name>>])
    ELSE [i \in 1..Len(ledger) |->
            IF ledger[i].path = path
            THEN [ledger[i] EXCEPT !.missing = SetAdd(@, name)]
            ELSE ledger[i]]

\* a slip: the locale that has the key is recorded as the one lacking it
RecordExists_AsMissing(ledger, path, name) ==
    IF ~(\E i \in 1..Len(ledger) : ledger[i].path = path)
    THEN Append(ledger, [path |-> path, exists |-> <<>>, missing |-> <<name>>])
    ELSE [i \in 1..Len(ledger) |->
            IF ledger[i].path = path
            THEN [ledger[i] EXCEPT !.missing = SetAdd(@, name)]
            ELSE ledger[i]]

\* gen.ts:98-103: name has a key the target lacks
RecordExists(ledger, path, name) ==
    IF ~LedgerHas(ledger, path)
    THEN Append(ledger, [path |-> path, exists |-> <<name>>, missing |-> <<>>])
    ELSE [i \in 1..Len(ledger) |->
            IF ledger[i].path = path
            THEN [ledger[i] EXCEPT !.exists = SetAdd(@, name)]
            ELSE ledger[i]]

(***************************************************************************)
(* merge (gen.ts:65-143).                                                  *)
(***************************************************************************)
\* key in obj.value: own or inherited
KeyIn(key, obj) == key \in DOMAIN obj.value \/ key \in ObjectPrototypeKeys
\* obj.value[key], given key in obj.value
Get(obj, key) == IF key \in DOMAIN obj.value THEN obj.value[key] ELSE Inherited
\* Object.entries(obj.value): the own keys
OwnKeys(obj) == SelectSeq(KeyOrder, LAMBDA k : k \in DOMAIN obj.value)

ParamNames(body) ==
    LET ps == SelectSeq(body, isParamArgType)
    IN  [i \in 1..Len(ps) |-> ps[i].name]

\* a slip: a key the source lacks is written into the source
CheckTargetKey_Fill(key, t, s, name, ctx) ==
    IF ~KeyIn(key, ctx.heap[s])
    THEN SetKey(ctx, s, key, ctx.heap[t].value[key])
    ELSE ctx

\* one turn of the first forEach (gen.ts:71-91)
CheckTargetKey(key, t, s, name, ctx) ==
    LET target == ctx.heap[t]
        source == ctx.heap[s]
    IN  IF ~KeyIn(key, source)
        THEN [ctx EXCEPT !.missing = RecordMissing(@, PathOf(ctx, key), name)]
        ELSE IF Get(source, key).kind # target.value[key].kind
        THEN [ctx EXCEPT !.errors = SetAdd(@,
                 type_of_path_is_unexpected(PathOf(ctx, key),
                     Get(source, key).kind, target.value[key].kind))]
        ELSE ctx

\* a slip: every key the target lacks is adopted, provisional or not
AdoptOrRecord_Always(key, t, s, name, ctx) ==
    SetKey(ctx, t, key, ctx.heap[s].value[key])

\* gen.ts:94-106: a key of the source that is not in the target
AdoptOrRecord(key, t, s, name, ctx) ==
    IF isMissingRecordTypeDescriptor(ctx.heap[t])
    THEN SetKey(ctx, t, key, ctx.heap[s].value[key])
    ELSE [ctx EXCEPT !.missing = RecordExists(@, PathOf(ctx, key), name)]

\* a slip: the literal fragments are not filtered out, and arrayEq compares
\* the whole bodies by name, a literal having none
CheckCallArgs_NoFilter(key, targetValue, value, ctx) ==
    LET NameOf(a) == IF isParamArgType(a) THEN a.name ELSE "undefined"
        same == /\ Len(targetValue.body) = Len(value.body)
                /\ \A i \in 1..Len(value.body) :
                      NameOf(targetValue.body[i]) = NameOf(value.body[i])
    IN  IF ~same
        THEN [ctx EXCEPT !.errors = SetAdd(@,
                 args_is_different(PathOf(ctx, key),
                     ParamNames(targetValue.body), ParamNames(value.body)))]
        ELSE ctx

\* gen.ts:110-123: two call descriptors
CheckCallArgs(key, targetValue, value, ctx) ==
    LET targetArgs == SelectSeq(targetValue.body, isParamArgType)
        sourceArgs == SelectSeq(value.body, isParamArgType)
    IN  IF ~arrayEq(targetArgs, sourceArgs)
        THEN [ctx EXCEPT !.errors = SetAdd(@,
                 args_is_different(PathOf(ctx, key),
                     ParamNames(targetValue.body), ParamNames(value.body)))]
        ELSE ctx

\* gen.ts:126-134: the kinds differ
KindMismatch(key, targetValue, value, ctx) ==
    [ctx EXCEPT !.errors = SetAdd(@,
        type_of_path_is_unexpected(PathOf(ctx, key), value.kind, targetValue.kind))]

RECURSIVE merge(_, _, _, _)
RECURSIVE CheckTargetKeys(_, _, _, _, _)
RECURSIVE MergeSourceKeys(_, _, _, _, _)

\* the first forEach (gen.ts:71-91) over the target's keys still to do
CheckTargetKeys(keys, t, s, name, ctx) ==
    IF Len(keys) = 0 THEN ctx
    ELSE CheckTargetKeys(Tail(keys), t, s, name,
                         CheckTargetKey(Head(keys), t, s, name, ctx))

\* one turn of the second forEach (gen.ts:93-136)
MergeSourceKey(key, t, s, name, ctx) ==
    LET target == ctx.heap[t]
        value  == ctx.heap[s].value[key]
    IN  IF ~KeyIn(key, target)
        THEN AdoptOrRecord(key, t, s, name, ctx)
        ELSE
          LET targetValue == Get(target, key)
          IN  IF isStringType(targetValue) /\ isStringType(value) THEN ctx
              ELSE IF isCallType(targetValue) /\ isCallType(value)
              THEN CheckCallArgs(key, targetValue, value, ctx)
              ELSE IF isRecordType(targetValue) /\ isRecordType(value)
              THEN \* inPathContext(context, key, ctx => merge(...))
                   LET sub == merge(targetValue.ref, value.ref, name,
                                    [ctx EXCEPT !.paths = Append(@, key)])
                   IN  [sub EXCEPT !.paths = ctx.paths]
              ELSE KindMismatch(key, targetValue, value, ctx)

\* the second forEach over the source's keys still to do
MergeSourceKeys(keys, t, s, name, ctx) ==
    IF Len(keys) = 0 THEN ctx
    ELSE MergeSourceKeys(Tail(keys), t, s, name,
                         MergeSourceKey(Head(keys), t, s, name, ctx))

\* a slip: the flag is never deleted
ClearMissing_Never(t, ctx) == ctx

\* gen.ts:138-140: delete target.missing
ClearMissing(t, ctx) ==
    IF isMissingRecordTypeDescriptor(ctx.heap[t])
    THEN [ctx EXCEPT !.heap[t].missing = FALSE]
    ELSE ctx

merge(t, s, name, ctx) ==
    LET c1 == CheckTargetKeys(OwnKeys(ctx.heap[t]), t, s, name, ctx)
        c2 == MergeSourceKeys(OwnKeys(c1.heap[s]), t, s, name, c1)
    IN  ClearMissing(t, c2)

(***************************************************************************)
(* The inputs of gen: an ordered list of named dictionaries.  Two families *)
(* of dictionaries are drawn from: wide ones (two keys, few kinds of       *)
(* value) for lists of up to MaxLocales locales, and rich ones (one key,   *)
(* every kind of value, nested up to three deep) alone or in pairs.        *)
(***************************************************************************)
LocaleNames == <<"en", "zh", "fr", "de", "ja">>

Absent == [t |-> "absent"]
\* the dictionary with the given values at x and y, Absent for no such key
Dict2(vx, vy) ==
    [k \in {j \in {"x", "y"} : (IF j = "x" THEN vx ELSE vy) # Absent}
        |-> IF k = "x" THEN vx ELSE vy]
Dict1(k, v) == [j \in {k} |-> v]

PlainText == Str(<<"h">>)
CallN     == Str(<<"h", "{n}">>)
CallU     == Str(<<"h", "{u}">>)

WideXValues == {Absent, PlainText, Dict(EmptyFn), Dict(Dict1("y", PlainText))}
WideYValues == {Absent, CallN, CallU}
WideDicts   == {Dict(Dict2(vx, vy)) : vx \in WideXValues, vy \in WideYValues}

RichLeaves ==
    { PlainText, Num(7), CallN, CallU,
      Str(<<"{n}", "i">>), Str(<<"{n}", "{u}">>), Str(<<"{u}", "h", "{n}">>),
      Bool(TRUE), Null, Arr(<<PlainText, Bool(FALSE)>>) }
RichNested ==
    {Dict(EmptyFn)}
    \cup {Dict(Dict1(k, v)) : k \in {"y", "constructor"}, v \in RichLeaves}
    \cup {Dict(Dict1("y", Dict(Dict1("x", v)))) : v \in {PlainText, CallN, CallU}}
RichDicts ==
    {Dict(EmptyFn)}
    \cup {Dict(Dict1(k, v)) : k \in {"x", "constructor"},
                              v \in RichLeaves \cup RichNested}

NamedValues(ds) == [i \in 1..Len(ds) |-> [name |-> LocaleNames[i], value |-> ds[i]]]

SeqsOf(S, n) == [1..n -> S]

\* files is one of the input lists of the model
IsInputList(fs) ==
    \/ \E n \in 0..MaxLocales : \E ds \in SeqsOf(WideDicts, n) : fs = NamedValues(ds)
    \/ \E n \in 1..2 : \E ds \in SeqsOf(RichDicts, n) : fs = NamedValues(ds)

(***************************************************************************)
(* The state of one call of gen.                                           *)
(***************************************************************************)
VARIABLES
    files,      \* the argument of gen
    pc,         \* where gen is: "build", "reduce", "fold", "ledger", "check",
                \* "returned", "thrown" (the composite error), "crashed"
    heap,       \* the record descriptors, by identity
    typeNodes,  \* gen.ts:202: the locale trees built so far, [name, value]
    built,      \* heap and typeNodes[i].value as they were when built
    merged,     \* the accumulator of the reduce: a heap id, 0 before it
    folded,     \* how many locales the reduce has folded
    errors,     \* context.errors
    missing,    \* context.missing
    paths,      \* context.paths
    thrown      \* the numbered lines of the composite error

vars == <<files, pc, heap, typeNodes, built, merged, folded, errors, missing,
          paths, thrown>>

\* gen.ts:201: new Set(files.map(({ name }) => name))
RECURSIVE Dedup(_)
Dedup(s) == IF Len(s) = 0 THEN <<>>
            ELSE SetAdd(Dedup(SubSeq(s, 1, Len(s) - 1)), s[Len(s)])
names == Dedup([i \in 1..Len(files) |-> files[i].name])

context == [heap |-> heap, errors |-> errors, missing |-> missing,
            paths |-> paths, crashed |-> FALSE]

\* gen.ts:199
Init ==
    /\ IsInputList(files)
    /\ pc = "build"
    /\ heap = <<>>
    /\ typeNodes = <<>>
    /\ built = <<>>
    /\ merged = 0
    /\ folded = 0
    /\ errors = <<>>
    /\ missing = <<>>
    /\ paths = <<>>
    /\ thrown = <<>>

\* gen.ts:202-205: one turn of files.map, toTypeNode of the next dictionary
BuildLocale ==
    /\ pc = "build"
    /\ Len(typeNodes) < Len(files)
    /\ LET f == files[Len(typeNodes) + 1]
           r == toTypeNode(f.value, context)
       IN  /\ heap' = r.ctx.heap
           /\ errors' = r.ctx.errors
           /\ IF r.ctx.crashed
              THEN /\ pc' = "crashed"
                   /\ UNCHANGED typeNodes
              ELSE /\ pc' = "build"
                   /\ typeNodes' = Append(typeNodes, [name |-> f.name, value |-> r.ref])
    /\ UNCHANGED <<files, built, merged, folded, missing, paths, thrown>>

\* gen.ts:207-210: the reduce starts from createMissingRecordTypeDescriptor()
StartReduce ==
    /\ pc = "build"
    /\ Len(typeNodes) = Len(files)
    /\ heap' = Append(heap, createMissingRecordTypeDescriptor)
    /\ merged' = Len(heap) + 1
    /\ built' = heap
    /\ pc' = "fold"
    /\ UNCHANGED <<files, typeNodes, folded, errors, missing, paths, thrown>>

\* gen.ts:208: one turn of the reduce, merge(prev, value, name, context)
MergeLocale ==
    /\ pc = "fold"
    /\ folded < Len(typeNodes)
    /\ LET tn == typeNodes[folded + 1]
           c  == merge(merged, tn.value, tn.name, context)
       IN  /\ heap' = c.heap
           /\ errors' = c.errors
           /\ missing' = c.missing
           /\ paths' = c.paths
    /\ folded' = folded + 1
    /\ UNCHANGED <<files, pc, typeNodes, built, merged, thrown>>

\* gen.ts:214: the locales a ledger entry blames
Offending(ns, entry) ==
    IF Len(entry.exists) # 0 THEN diffArray(ns, entry.exists) ELSE entry.missing

\* gen.ts:212-222: the ledger becomes key-missing diagnostics
RECURSIVE LedgerErrors(_, _, _)
LedgerErrors(ns, ledger, errs) ==
    IF Len(ledger) = 0 THEN errs
    ELSE LedgerErrors(ns, Tail(ledger),
            SetAdd(errs, key_missing_in_path(Head(ledger).path,
                                             Offending(ns, Head(ledger)))))

ConvertLedger ==
    /\ pc = "fold"
    /\ folded = Len(typeNodes)
    /\ errors' = LedgerErrors(names, missing, errors)
    /\ pc' = "check"
    /\ UNCHANGED <<files, heap, typeNodes, built, merged, folded, missing, paths,
                   thrown>>

\* gen.ts:225-230: the numbered list of the composite error
Composite(errs) == [i \in 1..Len(errs) |-> [idx |-> i, msg |-> errs[i]]]

\* gen.ts:224-231
Throw ==
    /\ pc = "check"
    /\ Len(errors) # 0
    /\ thrown' = Composite(errors)
    /\ pc' = "thrown"
    /\ UNCHANGED <<files, heap, typeNodes, built, merged, folded, errors, missing,
                   paths>>

\* gen.ts:233-268: no error, the backend prints merged and the locale trees
Return ==
    /\ pc = "check"
    /\ Len(errors) = 0
    /\ pc' = "returned"
    /\ UNCHANGED <<files, heap, typeNodes, built, merged, folded, errors, missing,
                   paths, thrown>>

Next ==
    \/ BuildLocale
    \/ StartReduce
    \/ MergeLocale
    \/ ConvertLedger
    \/ Throw
    \/ Return

Spec == Init /\ [][Next]_vars

(***************************************************************************)
(* gen as a function of its argument: the same steps, run to the end.      *)
(* Used to compare a run with the run on another order of the same list.   *)
(***************************************************************************)
RECURSIVE BuildAll(_, _, _)
\* gen.ts:202-205 over the files still to build
BuildAll(fs, tns, ctx) ==
    IF Len(fs) = 0 \/ ctx.crashed THEN [typeNodes |-> tns, ctx |-> ctx]
    ELSE LET r == toTypeNode(Head(fs).value, ctx)
         IN  BuildAll(Tail(fs),
                      IF r.ctx.crashed THEN tns
                      ELSE Append(tns, [name |-> Head(fs).name, value |-> r.ref]),
                      r.ctx)

RECURSIVE FoldAll(_, _, _)
\* gen.ts:207-210 over the locale trees still to fold
FoldAll(tns, t, ctx) ==
    IF Len(tns) = 0 THEN ctx
    ELSE FoldAll(Tail(tns), t, merge(t, Head(tns).value, Head(tns).name, ctx))

\* gen.ts:199-231: the context when gen throws or goes on to print
GenRun(fs) ==
    LET b == BuildAll(fs, <<>>, [heap |-> <<>>, errors |-> <<>>, missing |-> <<>>,
                                 paths |-> <<>>, crashed |-> FALSE])
    IN  IF b.ctx.crashed
        THEN [crashed |-> TRUE, heap |-> b.ctx.heap, typeNodes |-> b.typeNodes,
              merged |-> 0, errors |-> b.ctx.errors, missing |-> <<>>]
        ELSE
          LET t  == Len(b.ctx.heap) + 1
              c0 == [b.ctx EXCEPT !.heap = Append(@, createMissingRecordTypeDescriptor)]
              c  == FoldAll(b.typeNodes, t, c0)
              ns == Dedup([i \in 1..Len(fs) |-> fs[i].name])
          IN  [crashed |-> FALSE, heap |-> c.heap, typeNodes |-> b.typeNodes,
               merged |-> t, errors |-> LedgerErrors(ns, c.missing, c.errors),
               missing |-> c.missing]

(***************************************************************************)
(* What a tree says, read off the heap: at every key the kind and, for a   *)
(* call, the sequence of its parameter names.                              *)
(***************************************************************************)
RECURSIVE Shape(_, _)
Shape(h, id) ==
    [k \in DOMAIN h[id].value |->
        LET c == h[id].value[k]
        IN  IF c.kind = "record" THEN [kind |-> "record", value |-> Shape(h, c.ref)]
            ELSE IF c.kind = "call" THEN [kind |-> "call", params |-> ParamNames(c.body)]
            ELSE [kind |-> "string", value |-> <<>>]]

\* the paths (sequences of keys) of a shape
RECURSIVE PathsIn(_)
PathsIn(sh) ==
    UNION {{<<k>>} \cup (IF sh[k].kind = "record"
                         THEN {<<k>> \o p : p \in PathsIn(sh[k].value)}
                         ELSE {}) : k \in DOMAIN sh}

\* the descriptor of a shape at one of its paths
RECURSIVE At(_, _)
At(sh, p) == IF Len(p) = 1 THEN sh[p[1]] ELSE At(sh[p[1]].value, Tail(p))

Front(p) == SubSeq(p, 1, Len(p) - 1)
\* the path string the diagnostics give the key at path p
Dotted(p) == PathOf([paths |-> Front(p)], p[Len(p)])

Finished == pc \in {"check", "thrown", "returned"}
Canonical == Shape(heap, merged)
LocaleShape(i) == Shape(heap, typeNodes[i].value)

(***************************************************************************)
(* C1.  gen is fail-closed.                                                *)
(***************************************************************************)
\* every element of the error set is one line of the composite error, once,
\* and the lines are numbered 1..n
ListsEachOnce(lines, errs) ==
    /\ \A i \in 1..Len(lines) : lines[i].idx = i /\ lines[i].msg \in Range(errs)
    /\ \A e \in Range(errs) :
          Cardinality({i \in 1..Len(lines) : lines[i].msg = e}) = 1

\* gen is over: it has returned, thrown the composite error, or let the
\* TypeError of Object.entries(null) out
Done == pc \in {"returned", "thrown", "crashed"}

\* C1: gen returns its output only with an empty error set (after building,
\* folding and the conversion of the ledger); with any diagnostic collected
\* it throws the composite error, which lists every collected diagnostic
\* once, numbered 1..n, and returns nothing.  So whenever gen returns, every
\* locale tree has the keys, kinds and parameter names of the canonical tree
\* at every path.
C1_Original ==
    /\ pc = "returned" =>
          /\ errors = <<>>
          /\ \A i \in 1..Len(typeNodes) : LocaleShape(i) = Canonical
    /\ (Done /\ errors # <<>>) =>
          /\ pc = "thrown"
          /\ ListsEachOnce(thrown, errors)

\* the part of C1 that holds: gen returns only with an empty error set and an
\* empty ledger, all trees then agreeing with the canonical one, and the
\* composite error, when gen gets to throw it, lists every diagnostic once
C1_FailClosed ==
    /\ pc = "returned" =>
          /\ errors = <<>>
          /\ missing = <<>>
          /\ thrown = <<>>
          /\ \A i \in 1..Len(typeNodes) : LocaleShape(i) = Canonical
    /\ pc = "thrown" =>
          /\ errors # <<>>
          /\ ListsEachOnce(thrown, errors)
    /\ (Finished /\ (errors # <<>> \/ missing # <<>>)) => pc # "returned"

(***************************************************************************)
(* C2.  A single locale used alone.                                        *)
(***************************************************************************)
\* the diagnostics of the error set that unification (merge and the ledger)
\* recorded: all but the builder's unexpected-value diagnostics
UnificationErrors == SelectSeq(errors, LAMBDA e : e.type # "unexpected_value")

\* C2: for a list of one locale, unification records no diagnostic (the
\* error set holds nothing of its making and the ledger is empty) and the
\* canonical tree has the shape of that locale's tree: the same keys, kinds
\* and parameter names at every path.
C2_SingleLocale ==
    (Len(files) = 1 /\ Finished) =>
        /\ UnificationErrors = <<>>
        /\ missing = <<>>
        /\ Canonical = LocaleShape(1)

(***************************************************************************)
(* C3 and C4 speak of the keys the fold reaches in both the canonical tree *)
(* and a locale tree: those whose ancestors are groups in both.            *)
(***************************************************************************)
Reached(p, a, b) ==
    /\ p \in PathsIn(a) /\ p \in PathsIn(b)
    /\ \A n \in 1..(Len(p) - 1) :
          /\ At(a, SubSeq(p, 1, n)).kind = "record"
          /\ At(b, SubSeq(p, 1, n)).kind = "record"
ReachedPaths(a, b) == {p \in PathsIn(a) : Reached(p, a, b)}

\* the locales after the first that the reduce has folded
LaterFolded == {i \in 2..Len(typeNodes) : i <= folded}

\* C3: for two locales that disagree on the kind of a key both have, at any
\* depth the fold reaches, unification fails and the error set holds the
\* kind-mismatch diagnostic with the dotted path of that key, the canonical
\* kind (the first locale's, which seeds the canonical tree) as expected and
\* the later locale's kind as actual.
C3_Original ==
    (Len(files) = 2 /\ Finished) =>
        \A p \in ReachedPaths(LocaleShape(1), LocaleShape(2)) :
            At(LocaleShape(1), p).kind # At(LocaleShape(2), p).kind =>
                /\ type_of_path_is_unexpected(Dotted(p),
                       At(LocaleShape(2), p).kind, At(LocaleShape(1), p).kind)
                     \in Range(errors)
                /\ pc # "returned"

\* the part of C3 that holds: the same for every key the canonical tree
\* holds, against every later locale
C3_KindMismatch ==
    \A i \in LaterFolded :
        \A p \in ReachedPaths(Canonical, LocaleShape(i)) :
            At(Canonical, p).kind # At(LocaleShape(i), p).kind =>
                /\ type_of_path_is_unexpected(Dotted(p),
                       At(LocaleShape(i), p).kind, At(Canonical, p).kind)
                     \in Range(errors)
                /\ pc # "returned"

(***************************************************************************)
(* C4.  Two call descriptors.                                              *)
(***************************************************************************)
\* the descriptor object itself, literal fragments and all, at a path
RECURSIVE Cell(_, _, _)
Cell(h, id, p) ==
    IF Len(p) = 1 THEN h[id].value[p[1]]
    ELSE Cell(h, h[id].value[p[1]].ref, Tail(p))

FoldedLocales == {i \in 1..Len(typeNodes) : i <= folded}

\* the parameter-mismatch diagnostic is in the error set exactly for the
\* keys whose two name sequences differ
C4_Diagnosed ==
    merged # 0 =>
      \A i \in FoldedLocales :
        \A p \in ReachedPaths(Canonical, LocaleShape(i)) :
          (At(Canonical, p).kind = "call" /\ At(LocaleShape(i), p).kind = "call") =>
             ( args_is_different(Dotted(p), At(Canonical, p).params,
                                 At(LocaleShape(i), p).params) \in Range(errors)
               <=> At(Canonical, p).params # At(LocaleShape(i), p).params )

\* no step changes a call descriptor the canonical tree holds
C4_Unchanged ==
    merged # 0 =>
      \A p \in PathsIn(Canonical) :
         At(Canonical, p).kind = "call" =>
            /\ p \in PathsIn(Shape(heap', merged'))
            /\ Cell(heap', merged', p) = Cell(heap, merged, p)

\* C4: for a key that is a call in the canonical tree and in a locale tree,
\* merge records the parameter-mismatch diagnostic at the key's path, with
\* both name sequences, if and only if the sequences of parameter names
\* (literal fragments left out) differ; with equal sequences it records none;
\* either way the canonical descriptor of the key stays as it was.
C4_CallSignature == []C4_Diagnosed /\ [][C4_Unchanged]_vars

\* a call with the parameters n is folded into a canonical call with the
\* same parameters and other literal fragments, and another with other
\* parameters into its canonical call
C4_Witness ==
    /\ Finished
    /\ Len(files) = 2
    /\ \E p \in ReachedPaths(Canonical, LocaleShape(2)) :
          /\ At(Canonical, p).kind = "call"
          /\ At(LocaleShape(2), p).kind = "call"
          /\ At(Canonical, p).params # At(LocaleShape(2), p).params
          /\ Len(Cell(heap, merged, p).body) > Len(At(Canonical, p).params)

(***************************************************************************)
(* C5.  A pair of locales, one a strict superset of the other.             *)
(***************************************************************************)
\* every key of a is a key of b with the same kind and parameter names, and
\* so on inside the groups
RECURSIVE SubShape(_, _)
SubShape(a, b) ==
    \A k \in DOMAIN a :
        /\ k \in DOMAIN b
        /\ a[k].kind = b[k].kind
        /\ a[k].kind = "call" => a[k].params = b[k].params
        /\ a[k].kind = "record" => SubShape(a[k].value, b[k].value)

\* locale sup has every key of locale sub and more
StrictSuperset(sup, sub) ==
    /\ SubShape(LocaleShape(sub), LocaleShape(sup))
    /\ LocaleShape(sub) # LocaleShape(sup)

\* the absent keys: in b, not in a, the group they are in being in a
TopAbsent(a, b) ==
    {p \in PathsIn(b) : p \notin PathsIn(a) /\ (Len(p) = 1 \/ Front(p) \in PathsIn(a))}

Last(p) == p[Len(p)]
IsPrototypeKey(p) == Last(p) \in ObjectPrototypeKeys

\* what the ledger comes to: each path with the set of locales it blames
LedgerBlames == {<<missing[i].path, Range(Offending(names, missing[i]))>> :
                    i \in 1..Len(missing)}
KeyMissingOf(errs) ==
    {<<e.path, Range(e.missing)>> :
        e \in {d \in Range(errs) : d.type = "key_missing_in_path"}}

RECURSIVE NoKindConflict(_, _)
NoKindConflict(a, b) ==
    \A k \in DOMAIN a \cap DOMAIN b :
        /\ a[k].kind = b[k].kind
        /\ a[k].kind = "record" => NoKindConflict(a[k].value, b[k].value)

Reverse(fs) == [i \in 1..Len(fs) |-> fs[Len(fs) + 1 - i]]

\* the statement of C6 as written: both orders succeed, and the canonical
\* tree has the union of the keys in both
C6_Original ==
    (Len(files) = 2 /\ Finished /\ NoKindConflict(LocaleShape(1), LocaleShape(2))) =>
        LET r == GenRun(Reverse(files))
        IN  /\ pc # "thrown"
            /\ DOMAIN Canonical = DOMAIN LocaleShape(1) \cup DOMAIN LocaleShape(2)
            /\ r.errors = <<>>
            /\ DOMAIN Shape(r.heap, r.merged) = DOMAIN Canonical

\* C6, amended: seeding takes the first locale only.  For a pair of locales
\* that never conflict in kind, the canonical tree has exactly the first
\* locale's keys (of a name Object.prototype does not have): {x} for
\* [A, B] and {y} for [B, A] with A = {x: "1"}, B = {y: "2"}.  The keys of
\* the union that either locale lacks go to the ledger, so with different
\* key sets both orders fail, and both orders end with the same key-missing
\* diagnostics.
C6_SeedingFirstOnly ==
    (Len(files) = 2 /\ Finished /\ NoKindConflict(LocaleShape(1), LocaleShape(2))) =>
        LET r == GenRun(Reverse(files))
        IN  /\ DOMAIN Canonical = DOMAIN LocaleShape(1) \ ObjectPrototypeKeys
            /\ DOMAIN Shape(r.heap, r.merged)
                  = DOMAIN LocaleShape(2) \ ObjectPrototypeKeys
            /\ DOMAIN LocaleShape(1) # DOMAIN LocaleShape(2) =>
                  (pc # "returned" /\ errors # <<>> /\ r.errors # <<>>)
            /\ KeyMissingOf(r.errors) = KeyMissingOf(errors)

\* gen has thrown for [A, B] with A = {x: text} and B = {y: a call}
C6_Witness ==
    /\ pc = "thrown"
    /\ Len(files) = 2
    /\ DOMAIN LocaleShape(1) = {"x"} /\ LocaleShape(1)["x"].kind = "string"
    /\ DOMAIN LocaleShape(2) = {"y"} /\ LocaleShape(2)["y"].kind = "call"

(***************************************************************************)
(* C7.  The locales a key-missing diagnostic blames.                       *)
(***************************************************************************)
AllNames == {files[i].name : i \in 1..Len(files)}
\* the locales whose tree has the path
Containing(p) == {typeNodes[i].name : i \in {j \in 1..Len(typeNodes) :
                                                p \in PathsIn(LocaleShape(j))}}
AllPaths == UNION {PathsIn(LocaleShape(i)) : i \in 1..Len(typeNodes)}

\* no key on the path is a name Object.prototype has (those are C2's)
PlainPath(p) == \A n \in 1..Len(p) : p[n] \notin ObjectPrototypeKeys

\* the fold orders of a list
Orders(fs) ==
    {[i \in 1..Len(fs) |-> fs[f[i]]] :
        f \in {g \in [1..Len(fs) -> 1..Len(fs)] :
                 \A a, b \in 1..Len(fs) : a # b => g[a] # g[b]}}

\* C7: for locales with distinct names, the locales a final key-missing
\* diagnostic blames for a path are all the locales but those whose tree has
\* the path, and the key-missing diagnostics are the same for every fold
\* order of the locales.  (Stated for the lists without a key named as a
\* member of Object.prototype.)
C7_Original ==
    (Finished /\ \A q \in AllPaths : PlainPath(q)) =>
        /\ \A p \in AllPaths :
              \A e \in KeyMissingOf(errors) :
                  e[1] = Dotted(p) => e[2] = AllNames \ Containing(p)
        /\ \A fs \in Orders(files) :
              KeyMissingOf(GenRun(fs).errors) = KeyMissingOf(errors)

(***************************************************************************)
(* C8.  The values the tree builder rejects.                               *)
(***************************************************************************)
\* the entries of a dictionary and of the dictionaries in it: <<path, value>>
RECURSIVE RawEntries(_)
RawEntries(d) ==
    UNION {{<<(<<k>>), d[k]>>} \cup
           (IF d[k].t = "dict"
            THEN {<<(<<k>> \o e[1]), e[2]>> : e \in RawEntries(d[k].d)}
            ELSE {}) : k \in DOMAIN d}

\* C8: no exception escapes the tree builder, and for each entry whose value
\* is a boolean, null or an array it records an unexpected-value diagnostic
\* and leaves the key out of the tree.
C8_Original ==
    /\ pc # "crashed"
    /\ \A i \in 1..Len(typeNodes) :
          \A e \in RawEntries(files[i].value.d) :
              e[2].t \in {"boolean", "null", "array"} =>
                  /\ unexpected_value(Last(e[1]), e[2]) \in Range(errors)
                  /\ e[1] \notin PathsIn(LocaleShape(i))

(***************************************************************************)
(* C9.  Every problem among the locales has its diagnostic.                *)
(***************************************************************************)
\* a group both shapes have, in groups both have
SharedGroup(p, a, b) ==
    /\ Reached(p, a, b)
    /\ At(a, p).kind = "record" /\ At(b, p).kind = "record"

DiagnosedAt(type, p) ==
    \E e \in Range(errors) : e.type = type /\ e.path = Dotted(p)

\* C9: once gen has run, whatever two locales disagree on, in a group both
\* have, has a diagnostic for its path in the final error set: a kind
\* mismatch, a parameter mismatch, a key one of them lacks.  (Stated for
\* the paths without a key named as a member of Object.prototype.)
C9_Original ==
    Finished =>
      \A i, j \in 1..Len(typeNodes) :
         LET a == LocaleShape(i)
             b == LocaleShape(j)
         IN  /\ \A p \in {q \in ReachedPaths(a, b) : PlainPath(q)} :
                   /\ At(a, p).kind # At(b, p).kind
                        => DiagnosedAt("type_of_path_is_unexpected", p)
                   /\ (At(a, p).kind = "call" /\ At(b, p).kind = "call"
                        /\ At(a, p).params # At(b, p).params)
                        => DiagnosedAt("args_is_different", p)
             /\ \A p \in {q \in TopAbsent(a, b) : PlainPath(q)} :
                   (Len(p) = 1 \/ SharedGroup(Front(p), a, b))
                        => DiagnosedAt("key_missing_in_path", p)

(***************************************************************************)
(* C10.  The provisional flag of the canonical accumulator.                *)
(***************************************************************************)
Provisional == isMissingRecordTypeDescriptor(heap[merged])

\* the statement of C10 as written, for the flag: provisional while the
\* first locale is being folded or while no key has been accepted
C10_Original ==
    merged # 0 =>
        ((folded = 0 \/ DOMAIN heap[merged].value = {}) => Provisional)

\* provisional until the first merge has ended, and only the accumulator
C10_Flag ==
    /\ merged # 0 => (Provisional <=> folded = 0)
    /\ \A id \in 1..Len(heap) : id # merged => ~heap[id].missing

\* the pairs <<target, source, paths>> a merge of s into t goes through
RECURSIVE MergePairs(_, _, _, _)
MergePairs(h, t, s, ps) ==
    {<<t, s, ps>>} \cup
    UNION {MergePairs(h, h[t].value[k].ref, h[s].value[k].ref, Append(ps, k)) :
              k \in {j \in DOMAIN h[t].value \cap DOMAIN h[s].value :
                        h[t].value[j].kind = "record" /\ h[s].value[j].kind = "record"}}

\* a turn of the reduce: every key of the locale that merge finds absent
\* from its target is adopted if the target is provisional, and otherwise
\* left out, the locale going into the exists set of the key's path
C10_Adoption ==
    (pc = "fold" /\ folded' = folded + 1) =>
        LET tn == typeNodes[folded + 1]
        IN  \A m \in MergePairs(heap, merged, tn.value, <<>>) :
              \A k \in DOMAIN heap[m[2]].value :
                 ~KeyIn(k, heap[m[1]]) =>
                    IF heap[m[1]].missing
                    THEN /\ k \in DOMAIN heap'[m[1]].value
                         /\ heap'[m[1]].value[k] = heap[m[2]].value[k]
                         /\ ~LedgerHas(missing', PathOf([paths |-> m[3]], k))
                    ELSE /\ k \notin DOMAIN heap'[m[1]].value
                         /\ LedgerHas(missing', PathOf([paths |-> m[3]], k))
                         /\ tn.name \in Range(LedgerGet(missing',
                                          PathOf([paths |-> m[3]], k)).exists)

\* C10, amended: the canonical accumulator is provisional until its first
\* merge has ended, that is only while the first locale of the list is being
\* folded, whether it gives keys or not: after an empty first locale it is
\* no longer provisional though it has accepted no key.  In merge a locale
\* key the `in` test finds absent from the target is adopted exactly when the
\* target is provisional, otherwise the locale is added to the exists set of
\* the ledger for that path.  After all locales (at least one) are folded
\* the flag is clear.
C10_ProvisionalFirstOnly == []C10_Flag /\ [][C10_Adoption]_vars

\* an empty first locale is folded, then a locale whose key goes to the
\* ledger
C10_Witness ==
    /\ pc = "fold"
    /\ folded = 2
    /\ DOMAIN LocaleShape(1) = {}
    /\ DOMAIN LocaleShape(2) # {}
    /\ DOMAIN Canonical = {}
    /\ \E i \in 1..Len(missing) : missing[i].exists = <<typeNodes[2].name>>

(***************************************************************************)
(* C11.  The locale trees are not written to by the fold.                  *)
(***************************************************************************)
\* the record descriptors toTypeNode made: all of the heap but the
\* accumulator of the reduce
LocaleRecords == {id \in 1..Len(heap) : id # merged}

\* every record of every locale tree is, with its keys, kinds, bodies,
\* references and flag, as toTypeNode left it
C11_AsBuilt ==
    merged # 0 =>
        /\ LocaleRecords = DOMAIN built
        /\ \A id \in LocaleRecords : heap[id] = built[id]
        /\ \A i \in 1..Len(typeNodes) :
              Shape(heap, typeNodes[i].value) = Shape(built, typeNodes[i].value)

\* a turn of the reduce writes to the accumulator, the error set and the
\* ledger, and to nothing else
C11_FoldStep ==
    (pc = "fold" /\ folded' = folded + 1) =>
        /\ \A id \in LocaleRecords : heap'[id] = heap[id]
        /\ Len(heap') = Len(heap)
        /\ typeNodes' = typeNodes
        /\ paths' = paths
        /\ files' = files

\* C11: for every input list and every turn of the fold, merge changes only
\* the canonical accumulator, the error set and the missing ledger; no key,
\* kind, argument sequence or flag of a locale tree made by toTypeNode
\* differs after gen from what it was right after building, although the
\* canonical tree holds the first locale's descriptors (nested groups too) by
\* reference and later merges go into them as the target.
C11_LocaleTreesImmutable == []C11_AsBuilt /\ [][C11_FoldStep]_vars

\* the accumulator holds the first locale's group x by reference, and a later
\* locale with a key of x the first has not was merged into that group
C11_Witness ==
    /\ Finished
    /\ folded >= 2
    /\ "x" \in DOMAIN heap[merged].value
    /\ heap[merged].value["x"].kind = "record"
    /\ heap[merged].value["x"] = heap[typeNodes[1].value].value["x"]
    /\ \E i \in 2..Len(typeNodes) :
          /\ "x" \in DOMAIN LocaleShape(i)
          /\ LocaleShape(i)["x"].kind = "record"
          /\ \E k \in DOMAIN LocaleShape(i)["x"].value :
                /\ k \notin DOMAIN LocaleShape(1)["x"].value
                /\ LedgerHas(missing, <<"x", ".", k>>)

====
